---- MODULE Spec2Model ----
(***************************************************************************)
(* Model of skills/parse-md-to-pdf/scripts/md-to-pdf.mjs: the Markdown to  *)
(* PDF conversion pipeline (markdownToHtml, escapeHtml, buildHtmlDocument, *)
(* generatePdf, main).                                                     *)
(*                                                                         *)
(* Text is modelled as a sequence of items; an item is a string and the    *)
(* text is the concatenation of its items.  Characters that the code       *)
(* treats specially (& < > " $ and whitespace) are items of their own, and *)
(* the fixed pieces of markup the code emits or matches are single items.  *)
(***************************************************************************)
EXTENDS Integers, Sequences, FiniteSets, TLC

VARIABLES
    markdownContent, \* the Markdown document given to markdownToHtml
    pc,              \* the statement of main/markdownToHtml/generatePdf to run next
    mermaidBlocks,   \* markdownToHtml: the recorded { index, code } blocks
    mermaidIndex,    \* markdownToHtml: the next index to hand out
    tok,             \* marked's walkTokens: position of the next block token
    tokens,          \* the text of each block token after the highlight callback
    wrap,            \* the markup shape the renderer gave each code block
    html,            \* markdownToHtml: the html string
    hasMermaid,      \* the flag markdownToHtml returned to main
    fullHtml,        \* the document buildHtmlDocument returned
    gpHasMermaid,    \* the hasMermaid argument generatePdf was called with
    launches,        \* number of puppeteer.launch calls that returned a browser
    closes,          \* number of browser.close calls
    page,            \* state of each .mermaid element of the loaded page
    elapsed,         \* milliseconds waitForFunction has been polling
    settles,         \* number of settle delays taken
    runs,            \* how many times each stage of the pipeline was started
    failedAt,        \* the stage whose promise rejected ("none" if none did)
    exported,        \* page.pdf wrote the artifact
    successReported, \* main printed the success line
    errorsReported,  \* number of "Fatal error" reports
    exitCode,        \* process exit status (-1 while the process runs)
    calls            \* number of markdownToHtml calls made so far

vars == <<markdownContent, pc, mermaidBlocks, mermaidIndex, tok, tokens, wrap,
          html, hasMermaid, fullHtml, gpHasMermaid, launches, closes, page,
          elapsed, settles, runs, failedAt, exported, successReported,
          errorsReported, exitCode, calls>>

parseVars == <<mermaidBlocks, mermaidIndex, tok, tokens, wrap, html, hasMermaid>>
engineVars == <<gpHasMermaid, launches, closes, page, elapsed, settles, exported>>
exitVars == <<successReported, errorsReported, exitCode>>

-----------------------------------------------------------------------------
(* Bounds of the model *)

MaxBlocks == 2      \* blocks in a document
MaxCodeLen == 2     \* items in the source of a diagram fence
MaxCalls == 2       \* markdownToHtml calls in a sequence of calls
TickMs == 10000     \* granularity of the clock of the diagram wait

-----------------------------------------------------------------------------
(* Text helpers *)

RECURSIVE Flatten(_)
Flatten(ss) == IF ss = <<>> THEN <<>> ELSE Head(ss) \o Flatten(Tail(ss))

RECURSIVE ReplaceItem(_, _, _)
\* String.prototype.replace(/c/g, to) for a one-character pattern c.
ReplaceItem(text, c, to) ==
    IF text = <<>> THEN <<>>
    ELSE (IF Head(text) = c THEN to ELSE <<Head(text)>>) \o ReplaceItem(Tail(text), c, to)

Count(text, item) == Cardinality({k \in 1..Len(text) : text[k] = item})

Min(a, b) == IF a < b THEN a ELSE b

-----------------------------------------------------------------------------
(* Markup *)

Placeholder(i) == "<!--MERMAID_PLACEHOLDER_" \o ToString(i) \o "-->"

\* What marked-highlight's code renderer puts around the text of a code token.
CodeOpen(lang) ==
    IF lang = "" THEN "<pre><code>"
    ELSE "<pre><code class=\"hljs language-" \o lang \o "\">"
CodeClose == "</code></pre>"

Langs == {"mermaid", "js", ""}

Whitespace == {"\n", " "}

DivOpen == "<div class=\"mermaid-container\"><div class=\"mermaid\">"
DivClose == "</div></div>"

escapeHtml(text) ==
    ReplaceItem(ReplaceItem(ReplaceItem(ReplaceItem(text,
        "&", <<"&", "amp;">>), "<", <<"&", "lt;">>), ">", <<"&", "gt;">>),
        "\"", <<"&", "quot;">>)

mermaidDiv(code) == <<DivOpen>> \o escapeHtml(code) \o <<DivClose>>

-----------------------------------------------------------------------------
(* The wrapper pattern and String.prototype.replace *)

\* An item that `<pre><code[^>]*>` matches.
IsCodeOpen(item) == item \in {CodeOpen(l) : l \in Langs}

RECURSIVE SkipWs(_, _)
\* \s* : the first position at or after p that holds no whitespace.
SkipWs(h, p) ==
    IF p <= Len(h) /\ h[p] \in Whitespace THEN SkipWs(h, p + 1) ELSE p

\* wrappedPattern for block index i matched at position p of h: the position
\* of the last item of the match, 0 when there is no match at p.
MatchEnd(h, p, i) ==
    IF ~IsCodeOpen(h[p]) THEN 0
    ELSE LET q == SkipWs(h, p + 1) IN
         IF q > Len(h) \/ h[q] # Placeholder(i) THEN 0
         ELSE LET r == SkipWs(h, q + 1) IN
              IF r > Len(h) \/ h[r] # CodeClose THEN 0 ELSE r

RECURSIVE GetSubstitution(_, _)
\* The replacement patterns of a replacement string: $$ inserts "$" and $&
\* inserts the matched text.  (The wrapper pattern has no capture groups, so
\* $1..$9 are literal; $` and $' need a quote or backquote, which the code
\* alphabet below does not contain.)
GetSubstitution(matched, repl) ==
    IF repl = <<>> THEN <<>>
    ELSE IF Head(repl) = "$" /\ Len(repl) >= 2 /\ repl[2] = "$"
         THEN <<"$">> \o GetSubstitution(matched, Tail(Tail(repl)))
    ELSE IF Head(repl) = "$" /\ Len(repl) >= 2 /\ repl[2] = "&"
         THEN matched \o GetSubstitution(matched, Tail(Tail(repl)))
    ELSE <<Head(repl)>> \o GetSubstitution(matched, Tail(repl))

RECURSIVE ReplaceFrom(_, _, _, _)
ReplaceFrom(h, p, i, repl) ==
    IF p > Len(h) THEN <<>>
    ELSE LET e == MatchEnd(h, p, i) IN
         IF e > 0
         THEN GetSubstitution(SubSeq(h, p, e), repl) \o ReplaceFrom(h, e + 1, i, repl)
         ELSE <<h[p]>> \o ReplaceFrom(h, p + 1, i, repl)

\* html.replace(wrappedPattern, mermaidDiv) with the "g" flag.
ReplaceWrapped(h, i, repl) == ReplaceFrom(h, 1, i, repl)

RECURSIVE Reinject(_, _)
\* The for loop over mermaidBlocks.
Reinject(h, blocks) ==
    IF blocks = <<>> THEN h
    ELSE Reinject(ReplaceWrapped(h, Head(blocks).index, mermaidDiv(Head(blocks).code)),
                  Tail(blocks))

-----------------------------------------------------------------------------
(* Documents *)

Fence(lang, code) == [kind |-> "fence", lang |-> lang, code |-> code]
RawHtml(items) == [kind |-> "html", lang |-> "", code |-> items]

CodeChars == {"&", "<", ">", "\"", "$", "lt;"}

Codes == UNION {[1..n -> CodeChars] : n \in 0..MaxCodeLen}

SmallCodes == {<<"a">>, <<"b">>}

\* A raw HTML block of the document that spells a wrapped placeholder.
LiteralWrapped == RawHtml(<<CodeOpen(""), Placeholder(0), CodeClose>>)

BlocksOf(codes) ==
    {Fence("mermaid", c) : c \in codes}
        \cup {Fence("js", <<"a">>), Fence("", <<"a">>), LiteralWrapped}

DocsOf(codes) == UNION {[1..n -> BlocksOf(codes)] : n \in 0..MaxBlocks}

IsDiagramFence(b) == b.kind = "fence" /\ b.lang = "mermaid"

-----------------------------------------------------------------------------
(* markdownToHtml *)

\* let mermaidIndex = 0
InitialIndex == 0

\* Variant: the counter is never advanced.
NextIndex_Stuck(i) == i

\* mermaidIndex++
NextIndex(i) == i + 1

\* Entry of markdownToHtml: the block list and the counter are created.
EnterMarkdownToHtml ==
    /\ pc = "markdownToHtml"
    /\ mermaidBlocks' = <<>>
    /\ mermaidIndex' = InitialIndex
    /\ tok' = 1
    /\ tokens' = <<>>
    /\ wrap' = <<>>
    /\ html' = <<>>
    /\ calls' = calls + 1
    /\ runs' = [runs EXCEPT !["markdownToHtml"] = @ + 1]
    /\ pc' = "walkTokens"
    /\ UNCHANGED <<markdownContent, hasMermaid, fullHtml, failedAt>>
    /\ UNCHANGED engineVars
    /\ UNCHANGED exitVars

\* The highlight callback on a diagram fence.
HighlightMermaid ==
    /\ pc = "walkTokens"
    /\ tok <= Len(markdownContent)
    /\ IsDiagramFence(markdownContent[tok])
    /\ mermaidBlocks' = Append(mermaidBlocks,
                               [index |-> mermaidIndex, code |-> markdownContent[tok].code])
    /\ mermaidIndex' = NextIndex(mermaidIndex)
    /\ tokens' = Append(tokens, <<Placeholder(mermaidIndex)>>)
    /\ tok' = tok + 1
    /\ UNCHANGED <<markdownContent, pc, wrap, html, hasMermaid, fullHtml, runs,
                   failedAt, calls>>
    /\ UNCHANGED engineVars
    /\ UNCHANGED exitVars

\* The highlight callback on any other fence (highlight.js escapes the code),
\* and a block that is no code token, which walkTokens leaves alone.
HighlightOther ==
    /\ pc = "walkTokens"
    /\ tok <= Len(markdownContent)
    /\ ~IsDiagramFence(markdownContent[tok])
    /\ tokens' = Append(tokens,
                        IF markdownContent[tok].kind = "fence"
                        THEN escapeHtml(markdownContent[tok].code)
                        ELSE markdownContent[tok].code)
    /\ tok' = tok + 1
    /\ UNCHANGED <<markdownContent, pc, mermaidBlocks, mermaidIndex, wrap, html,
                   hasMermaid, fullHtml, runs, failedAt, calls>>
    /\ UNCHANGED engineVars
    /\ UNCHANGED exitVars

Shapes == {"plain", "decorated"}

\* The markup of block k: a code token inside the renderer's wrapper (with
\* extra markup around the text when the renderer decorates it), raw HTML
\* verbatim.
RenderBlock(doc, toks, shapes, k) ==
    IF doc[k].kind = "html" THEN toks[k]
    ELSE IF shapes[k] = "plain"
         THEN <<CodeOpen(doc[k].lang)>> \o toks[k] \o <<"\n", CodeClose>>
         ELSE <<CodeOpen(doc[k].lang), "<span class=\"line\">">> \o toks[k]
                  \o <<"</span>", "\n", CodeClose>>

RenderAll(doc, toks, shapes) ==
    Flatten([k \in 1..Len(doc) |-> RenderBlock(doc, toks, shapes, k)])

\* The rendering half of marked.parse.
Render ==
    /\ pc = "walkTokens"
    /\ tok > Len(markdownContent)
    /\ \E shapes \in [1..Len(markdownContent) -> Shapes] :
          /\ \A k \in 1..Len(markdownContent) :
                ~IsDiagramFence(markdownContent[k]) => shapes[k] = "plain"
          /\ wrap' = shapes
          /\ html' = RenderAll(markdownContent, tokens, shapes)
    /\ pc' = "reinject"
    /\ UNCHANGED <<markdownContent, mermaidBlocks, mermaidIndex, tok, tokens,
                   hasMermaid, fullHtml, runs, failedAt, calls>>
    /\ UNCHANGED engineVars
    /\ UNCHANGED exitVars

\* mermaidBlocks.length > 0
HasMermaid(blocks) == Len(blocks) > 0

\* The reinjection loop and the return of markdownToHtml.
ReinjectAndReturn ==
    /\ pc = "reinject"
    /\ html' = Reinject(html, mermaidBlocks)
    /\ hasMermaid' = HasMermaid(mermaidBlocks)
    /\ pc' = "buildHtmlDocument"
    /\ UNCHANGED <<markdownContent, mermaidBlocks, mermaidIndex, tok, tokens, wrap,
                   fullHtml, runs, failedAt, calls>>
    /\ UNCHANGED engineVars
    /\ UNCHANGED exitVars

-----------------------------------------------------------------------------
(* buildHtmlDocument *)

MermaidBootstrap ==
    "<script src=\"https://cdn.jsdelivr.net/npm/mermaid@11/dist/mermaid.min.js\"></script><script>mermaid.initialize({ startOnLoad: true, theme: 'default' });</script>"

\* Variant: the bootstrap is injected whatever the flag.
buildHtmlDocument_AlwaysScript(bodyHtml, cssContent, flag) ==
    [css |-> cssContent, mermaidScript |-> MermaidBootstrap, body |-> bodyHtml]

buildHtmlDocument(bodyHtml, cssContent, flag) ==
    [css |-> cssContent,
     mermaidScript |-> IF flag THEN MermaidBootstrap ELSE "",
     body |-> bodyHtml]

\* main: const fullHtml = buildHtmlDocument(html, cssContent, hasMermaid)
BuildHtmlDocument ==
    /\ pc = "buildHtmlDocument"
    /\ fullHtml' = buildHtmlDocument(html, "css", hasMermaid)
    /\ runs' = [runs EXCEPT !["buildHtmlDocument"] = @ + 1]
    /\ pc' = "launch"
    /\ UNCHANGED <<markdownContent, failedAt, calls>>
    /\ UNCHANGED parseVars
    /\ UNCHANGED engineVars
    /\ UNCHANGED exitVars

-----------------------------------------------------------------------------
(* generatePdf *)

TimeoutMs == 30000

\* Variant: the rejection is swallowed and the run carries on to success.
Throw_Swallowed(stage) ==
    /\ failedAt' = stage
    /\ pc' = "success"

\* A rejected await inside generatePdf: nothing catches it before main().catch.
Throw(stage) ==
    /\ failedAt' = stage
    /\ pc' = "catch"

\* await puppeteer.launch(...), on the call generatePdf(fullHtml, outputPath, hasMermaid)
Launch ==
    /\ pc = "launch"
    /\ gpHasMermaid' = hasMermaid
    /\ runs' = [runs EXCEPT !["launch"] = @ + 1]
    /\ \/ /\ launches' = launches + 1
          /\ pc' = "newPage"
          /\ UNCHANGED failedAt
       \/ /\ Throw("launch")
          /\ UNCHANGED launches
    /\ UNCHANGED <<markdownContent, fullHtml, closes, page, elapsed, settles,
                   exported, calls>>
    /\ UNCHANGED parseVars
    /\ UNCHANGED exitVars

\* await browser.newPage()
NewPage ==
    /\ pc = "newPage"
    /\ runs' = [runs EXCEPT !["newPage"] = @ + 1]
    /\ \/ pc' = "setContent" /\ UNCHANGED failedAt
       \/ Throw("newPage")
    /\ UNCHANGED <<markdownContent, fullHtml, calls>>
    /\ UNCHANGED parseVars
    /\ UNCHANGED engineVars
    /\ UNCHANGED exitVars

\* The states a .mermaid element can be in: untouched, marked
\* data-processed="true", or holding an <svg>.
Materialized == {"processed", "svg"}
ElementStates == {"pending"} \cup Materialized

\* The .mermaid elements of the document: one per container in the body.
NumMermaidDivs(doc) == Count(doc.body, DivOpen)

\* await page.setContent(htmlContent, { waitUntil: "networkidle0" }); mermaid
\* (startOnLoad) may already have handled some elements when this returns.
SetContent ==
    /\ pc = "setContent"
    /\ runs' = [runs EXCEPT !["setContent"] = @ + 1]
    /\ \/ /\ page' \in [1..NumMermaidDivs(fullHtml) ->
                           IF fullHtml.mermaidScript = "" THEN {"pending"}
                           ELSE ElementStates]
          /\ pc' = "ifMermaid"
          /\ UNCHANGED failedAt
       \/ /\ Throw("setContent")
          /\ UNCHANGED page
    /\ UNCHANGED <<markdownContent, fullHtml, gpHasMermaid, launches, closes,
                   elapsed, settles, exported, calls>>
    /\ UNCHANGED parseVars
    /\ UNCHANGED exitVars

\* Variant: the wait is entered whatever the flag.
WaitsForDiagrams_Always(flag) == TRUE

\* if (hasMermaid)
WaitsForDiagrams(flag) == flag

IfMermaid ==
    /\ pc = "ifMermaid"
    /\ IF WaitsForDiagrams(gpHasMermaid)
       THEN /\ pc' = "waitForFunction"
            /\ elapsed' = 0
            /\ runs' = [runs EXCEPT !["waitForFunction"] = @ + 1]
       ELSE /\ pc' = "pdf"
            /\ UNCHANGED <<elapsed, runs>>
    /\ UNCHANGED <<markdownContent, fullHtml, gpHasMermaid, launches, closes, page,
                   settles, exported, failedAt, calls>>
    /\ UNCHANGED parseVars
    /\ UNCHANGED exitVars

\* Variant: one materialized element is enough.
DiagramsDone_Some(p) ==
    Len(p) = 0 \/ \E k \in 1..Len(p) : p[k] \in Materialized

\* Variant: a page without .mermaid elements never counts as done.
DiagramsDone_NonEmpty(p) ==
    Len(p) > 0 /\ \A k \in 1..Len(p) : p[k] \in Materialized

\* The function polled by page.waitForFunction.
DiagramsDone(p) ==
    Len(p) = 0 \/ \A k \in 1..Len(p) : p[k] \in Materialized

\* Variant: the timer fires after the first tick.
TimedOut_Early(ms) == ms >= TickMs

\* { timeout: 30000 }
TimedOut(ms) == ms >= TimeoutMs

\* The page, while the wait polls: mermaid handles one more element.
Materialize ==
    /\ pc = "waitForFunction"
    /\ elapsed < TimeoutMs
    /\ fullHtml.mermaidScript # ""
    /\ \E k \in 1..Len(page), s \in Materialized :
          /\ page[k] = "pending"
          /\ page' = [page EXCEPT ![k] = s]
    /\ UNCHANGED <<markdownContent, pc, fullHtml, gpHasMermaid, launches, closes,
                   elapsed, settles, exported, runs, failedAt, calls>>
    /\ UNCHANGED parseVars
    /\ UNCHANGED exitVars

\* waitForFunction resolves: the polled function returned a truthy value.
WaitReady ==
    /\ pc = "waitForFunction"
    /\ ~TimedOut(elapsed)
    /\ DiagramsDone(page)
    /\ pc' = "settle"
    /\ UNCHANGED <<markdownContent, fullHtml, runs, failedAt, calls>>
    /\ UNCHANGED parseVars
    /\ UNCHANGED engineVars
    /\ UNCHANGED exitVars

\* Time passes while the polled function keeps returning false.
WaitTick ==
    /\ pc = "waitForFunction"
    /\ ~TimedOut(elapsed)
    /\ ~DiagramsDone(page)
    /\ elapsed' = Min(elapsed + TickMs, TimeoutMs)
    /\ UNCHANGED <<markdownContent, pc, fullHtml, gpHasMermaid, launches, closes,
                   page, settles, exported, runs, failedAt, calls>>
    /\ UNCHANGED parseVars
    /\ UNCHANGED exitVars

\* waitForFunction rejects with a TimeoutError.
WaitTimeout ==
    /\ pc = "waitForFunction"
    /\ TimedOut(elapsed)
    /\ Throw("waitForFunction")
    /\ UNCHANGED <<markdownContent, fullHtml, runs, calls>>
    /\ UNCHANGED parseVars
    /\ UNCHANGED engineVars
    /\ UNCHANGED exitVars

\* await new Promise((r) => setTimeout(r, 500))
Settle ==
    /\ pc = "settle"
    /\ settles' = settles + 1
    /\ runs' = [runs EXCEPT !["settle"] = @ + 1]
    /\ pc' = "pdf"
    /\ UNCHANGED <<markdownContent, fullHtml, gpHasMermaid, launches, closes, page,
                   elapsed, exported, failedAt, calls>>
    /\ UNCHANGED parseVars
    /\ UNCHANGED exitVars

\* await page.pdf({ path: outputPath, format: "A4", ... })
Pdf ==
    /\ pc = "pdf"
    /\ runs' = [runs EXCEPT !["pdf"] = @ + 1]
    /\ \/ /\ exported' = TRUE
          /\ pc' = "close"
          /\ UNCHANGED failedAt
       \/ /\ Throw("pdf")
          /\ UNCHANGED exported
    /\ UNCHANGED <<markdownContent, fullHtml, gpHasMermaid, launches, closes, page,
                   elapsed, settles, calls>>
    /\ UNCHANGED parseVars
    /\ UNCHANGED exitVars

\* await browser.close(); return outputPath
Close ==
    /\ pc = "close"
    /\ closes' = closes + 1
    /\ runs' = [runs EXCEPT !["close"] = @ + 1]
    /\ pc' = "success"
    /\ UNCHANGED <<markdownContent, fullHtml, gpHasMermaid, launches, page, elapsed,
                   settles, exported, failedAt, calls>>
    /\ UNCHANGED parseVars
    /\ UNCHANGED exitVars

-----------------------------------------------------------------------------
(* main *)

\* process.exit(1)
ExitStatusOnError == 1

\* console.log("PDF generated successfully"); the process then ends normally.
ReportSuccess ==
    /\ pc = "success"
    /\ successReported' = TRUE
    /\ exitCode' = 0
    /\ pc' = "exit"
    /\ UNCHANGED <<markdownContent, fullHtml, runs, failedAt, errorsReported, calls>>
    /\ UNCHANGED parseVars
    /\ UNCHANGED engineVars

\* main().catch((err) => { console.error("Fatal error:", err); process.exit(1); })
Catch ==
    /\ pc = "catch"
    /\ errorsReported' = errorsReported + 1
    /\ exitCode' = ExitStatusOnError
    /\ pc' = "exit"
    /\ UNCHANGED <<markdownContent, fullHtml, runs, failedAt, successReported, calls>>
    /\ UNCHANGED parseVars
    /\ UNCHANGED engineVars

\* markdownToHtml is called again, on another document, after it returned.
CallAgain ==
    /\ pc = "buildHtmlDocument"
    /\ calls < MaxCalls
    /\ markdownContent' \in DocsOf(SmallCodes)
    /\ pc' = "markdownToHtml"
    /\ UNCHANGED <<fullHtml, runs, failedAt, calls>>
    /\ UNCHANGED parseVars
    /\ UNCHANGED engineVars
    /\ UNCHANGED exitVars

-----------------------------------------------------------------------------
(* Specifications *)

Stages == {"markdownToHtml", "buildHtmlDocument", "launch", "newPage",
           "setContent", "waitForFunction", "settle", "pdf", "close"}

InitWith(docs) ==
    /\ markdownContent \in docs
    /\ pc = "markdownToHtml"
    /\ mermaidBlocks = <<>>
    /\ mermaidIndex = 0
    /\ tok = 1
    /\ tokens = <<>>
    /\ wrap = <<>>
    /\ html = <<>>
    /\ hasMermaid = FALSE
    /\ fullHtml = [css |-> "css", mermaidScript |-> "", body |-> <<>>]
    /\ gpHasMermaid = FALSE
    /\ launches = 0
    /\ closes = 0
    /\ page = <<>>
    /\ elapsed = 0
    /\ settles = 0
    /\ runs = [s \in Stages |-> 0]
    /\ failedAt = "none"
    /\ exported = FALSE
    /\ successReported = FALSE
    /\ errorsReported = 0
    /\ exitCode = -1
    /\ calls = 0

InitParse == InitWith(DocsOf(Codes))

NextParse ==
    \/ EnterMarkdownToHtml
    \/ HighlightMermaid
    \/ HighlightOther
    \/ Render
    \/ ReinjectAndReturn

SpecParse == InitParse /\ [][NextParse]_vars

Init == InitWith(DocsOf(SmallCodes))

Next ==
    \/ EnterMarkdownToHtml
    \/ HighlightMermaid
    \/ HighlightOther
    \/ Render
    \/ ReinjectAndReturn
    \/ BuildHtmlDocument
    \/ Launch
    \/ NewPage
    \/ SetContent
    \/ IfMermaid
    \/ Materialize
    \/ WaitReady
    \/ WaitTick
    \/ WaitTimeout
    \/ Settle
    \/ Pdf
    \/ Close
    \/ ReportSuccess
    \/ Catch

Spec == Init /\ [][Next]_vars

\* A step of page.waitForFunction: its poll and its timeout timer run on the
\* event loop, so one that stays possible is taken.  The page (Materialize)
\* owes nothing.
WaitStep == WaitReady \/ WaitTick \/ WaitTimeout

FairSpec == Spec /\ WF_vars(WaitStep)

NextCalls ==
    \/ EnterMarkdownToHtml
    \/ HighlightMermaid
    \/ HighlightOther
    \/ Render
    \/ ReinjectAndReturn
    \/ CallAgain

SpecCalls == Init /\ [][NextCalls]_vars

-----------------------------------------------------------------------------
(* Vocabulary of the properties *)

RECURSIVE DiagramCodes(_)
\* The sources of the diagram fences of a document, in source order.
DiagramCodes(doc) ==
    IF doc = <<>> THEN <<>>
    ELSE (IF IsDiagramFence(Head(doc)) THEN <<Head(doc).code>> ELSE <<>>)
             \o DiagramCodes(Tail(doc))

\* The blocks a parse of doc ought to record: indices 0..N-1 in source order.
ExpectedBlocks(doc) ==
    [i \in 1..Len(DiagramCodes(doc)) |-> [index |-> i - 1, code |-> DiagramCodes(doc)[i]]]

Entity(c) ==
    CASE c = "&" -> <<"&", "amp;">>
      [] c = "<" -> <<"&", "lt;">>
      [] c = ">" -> <<"&", "gt;">>
      [] c = "\"" -> <<"&", "quot;">>
      [] OTHER -> <<c>>

\* A text with each of & < > " replaced once, by its entity.
EscapedOnce(text) == Flatten([k \in 1..Len(text) |-> Entity(text[k])])

RECURSIVE UpTo(_, _)
\* The items of h before the first occurrence of item.
UpTo(h, item) ==
    IF h = <<>> \/ Head(h) = item THEN <<>> ELSE <<Head(h)>> \o UpTo(Tail(h), item)

RECURSIVE Payloads(_)
\* The contents of the diagram containers of h, in order.
Payloads(h) ==
    IF h = <<>> THEN <<>>
    ELSE IF Head(h) = DivOpen
         THEN LET body == UpTo(Tail(h), DivClose) IN
              <<body>> \o Payloads(SubSeq(h, Len(body) + 2, Len(h)))
         ELSE Payloads(Tail(h))

\* seg occurs in h as a run of consecutive items.
Contains(h, seg) ==
    \E p \in 1..(Len(h) - Len(seg) + 1) : SubSeq(h, p, p + Len(seg) - 1) = seg

Parsed == pc \notin {"markdownToHtml", "walkTokens", "reinject"}
Assembled == Parsed /\ pc # "buildHtmlDocument"
InGeneratePdf == Assembled /\ pc # "launch"

WellWrapped == \A k \in DOMAIN wrap : wrap[k] = "plain"

\* The document positions whose diagram wrapper the pattern cannot match.
Unmatched == {k \in DOMAIN wrap : wrap[k] = "decorated"}

StageOrder == <<"markdownToHtml", "buildHtmlDocument", "launch", "newPage",
                "setContent", "waitForFunction", "settle", "pdf", "close">>

StagePos(s) == CHOOSE k \in 1..Len(StageOrder) : StageOrder[k] = s

\* The state of the render engine, in the words of the state machine.
EngineState ==
    CASE failedAt = "waitForFunction" -> "TIMED_OUT"
      [] failedAt \notin {"none", "waitForFunction"} -> "FAILED"
      [] pc = "ifMermaid" -> "LOADED"
      [] pc = "waitForFunction" -> "DIAGRAMS_PENDING"
      [] pc = "settle" -> "DIAGRAMS_READY"
      [] pc = "pdf" -> IF settles > 0 THEN "DIAGRAMS_READY" ELSE "LOADED"
      [] pc = "close" -> "EXPORTED"
      [] pc \in {"success", "exit"} -> "CLOSED"
      [] OTHER -> "INIT"

-----------------------------------------------------------------------------
(* Properties *)

\* C1: in every execution of generatePdf that acquired the browser, the
\* browser is closed before the conversion ends, on every exit path: the
\* launch and close calls match 1:1 when the process exits.
C1_ReleasedOnEveryPath == pc = "exit" => closes = launches

\* C2: when the diagrams never materialize the conversion fails with a
\* timeout, only once the whole 30 s wait has elapsed: a timeout failure is
\* never raised earlier, no artifact is exported in that run, and the wait
\* never lasts forever.
C2_TimeoutOnlyAfterFullWait ==
    /\ [](failedAt = "waitForFunction" =>
             /\ elapsed >= TimeoutMs
             /\ ~exported
             /\ ~successReported)
    /\ [](elapsed <= TimeoutMs)
    /\ (pc = "waitForFunction") ~> (DiagramsDone(page) \/ failedAt = "waitForFunction")
    /\ (pc = "waitForFunction") ~> (pc # "waitForFunction")

C2_Witness ==
    /\ failedAt = "waitForFunction"
    /\ elapsed = TimeoutMs
    /\ exitCode = 1
    /\ \E k \in 1..Len(page) : page[k] = "pending"

\* C3: for a document whose diagram fences are all well wrapped, the output
\* of markdownToHtml holds exactly N containers for N diagram fences and the
\* payload of the i-th is the source of the i-th fence escaped exactly once,
\* whatever the source text.  (Stated for documents without a literal
\* wrapper of their own, so that only the payloads decide it.)
C3_ContainersHoldSourceEscapedOnce ==
    (/\ pc = "buildHtmlDocument"
     /\ WellWrapped
     /\ \A k \in 1..Len(markdownContent) : markdownContent[k] # LiteralWrapped)
    => Payloads(html) =
           [i \in 1..Len(DiagramCodes(markdownContent)) |->
               EscapedOnce(DiagramCodes(markdownContent)[i])]

\* C4: every call of markdownToHtml on a document with N diagram fences
\* records exactly N blocks, indexed 0..N-1 in source order, whatever calls
\* came before; other fences record nothing.
C4_BlocksIndexedInSourceOrder ==
    /\ pc = "walkTokens" =>
           mermaidBlocks = ExpectedBlocks(SubSeq(markdownContent, 1, tok - 1))
    /\ pc \in {"reinject", "buildHtmlDocument"} =>
           mermaidBlocks = ExpectedBlocks(markdownContent)

C4_Witness ==
    /\ calls >= 2
    /\ pc = "buildHtmlDocument"
    /\ Len(mermaidBlocks) = 2
    /\ mermaidBlocks[1].code # mermaidBlocks[2].code

\* C5: the assembled document carries the diagram-engine bootstrap exactly
\* when hasMermaid is true, hasMermaid is true exactly when the conversion
\* extracted at least one diagram block, and generatePdf receives the same
\* flag.
C5_BootstrapIffDiagrams ==
    /\ Parsed =>
           /\ hasMermaid <=> Len(DiagramCodes(markdownContent)) > 0
           /\ hasMermaid <=> Len(mermaidBlocks) > 0
    /\ Assembled =>
           /\ fullHtml.mermaidScript \in {"", MermaidBootstrap}
           /\ fullHtml.mermaidScript = MermaidBootstrap <=> hasMermaid
    /\ InGeneratePdf => gpHasMermaid = hasMermaid

C5_Witness ==
    /\ exitCode = 0
    /\ Len(markdownContent) = 2
    /\ ~hasMermaid
    /\ fullHtml.mermaidScript = ""

C6_Edges ==
    {<<"INIT", "LOADED">>, <<"LOADED", "DIAGRAMS_PENDING">>,
     <<"DIAGRAMS_PENDING", "DIAGRAMS_READY">>, <<"DIAGRAMS_PENDING", "TIMED_OUT">>,
     <<"LOADED", "EXPORTED">>, <<"DIAGRAMS_READY", "EXPORTED">>,
     <<"EXPORTED", "CLOSED">>,
     <<"INIT", "FAILED">>, <<"LOADED", "FAILED">>, <<"DIAGRAMS_READY", "FAILED">>}

C7_OnlyFenceWrappersReplaced ==
    (/\ pc = "buildHtmlDocument"
     /\ \A i \in 1..Len(mermaidBlocks) : Count(mermaidBlocks[i].code, "$") = 0)
    => /\ \A i, j \in 1..Len(mermaidBlocks) :
              mermaidBlocks[i].index = mermaidBlocks[j].index => i = j
       /\ html = Flatten([k \in 1..Len(markdownContent) |->
                     IF IsDiagramFence(markdownContent[k]) /\ wrap[k] = "plain"
                     THEN mermaidDiv(markdownContent[k].code)
                     ELSE RenderBlock(markdownContent, tokens, wrap, k)])

\* C8: with hasMermaid, the wait ends in DIAGRAMS_READY only in a state where
\* every .mermaid element of the page carries the processed marker or holds
\* an svg, and the settle delay is then taken exactly once before export.
C8_ReadyOnlyWhenAllMaterialized ==
    /\ [][(pc = "waitForFunction" /\ pc' = "settle") =>
              \A k \in 1..Len(page) : page[k] \in Materialized]_vars
    /\ []((hasMermaid /\ pc = "pdf") => settles = 1)
    /\ [](exported => settles = (IF hasMermaid THEN 1 ELSE 0))

C8_Witness ==
    /\ exported
    /\ hasMermaid
    /\ settles = 1
    /\ Len(page) = 2
    /\ page[1] # page[2]

\* C9: a fatal failure at any stage aborts the conversion: no later stage is
\* started, no stage is started twice, success is never reported, and the
\* process reports exactly one error and exits with status 1.
C9_FailureAborts ==
    /\ \A s \in Stages : runs[s] <= 1
    /\ errorsReported <= 1
    /\ failedAt # "none" =>
           /\ \A s \in Stages : StagePos(s) > StagePos(failedAt) => runs[s] = 0
           /\ ~successReported
           /\ pc \in {"catch", "exit"}
           /\ pc = "exit" => (exitCode = 1 /\ errorsReported = 1)

C9_Witness ==
    /\ failedAt = "pdf"
    /\ pc = "exit"
    /\ exitCode = 1
    /\ runs["close"] = 0

\* C10: a placeholder whose wrapper the pattern cannot match stays in the
\* final HTML verbatim; hasMermaid is true all the same and nothing fails
\* for it: the diagram wait times out only if an element of the page is
\* still not materialized, so never on a page without diagram elements.
C10_UnmatchedWrapperDegradesSilently ==
    (Parsed /\ Unmatched # {}) =>
        /\ \A k \in Unmatched :
              Contains(html, RenderBlock(markdownContent, tokens, wrap, k))
        /\ hasMermaid
        /\ failedAt \notin {"markdownToHtml", "buildHtmlDocument"}
        /\ failedAt = "waitForFunction" => \E k \in 1..Len(page) : page[k] = "pending"

C10_Witness ==
    /\ Unmatched # {}
    /\ Contains(html, <<Placeholder(0)>>)
    /\ Len(page) = 0
    /\ runs["waitForFunction"] = 1
    /\ exported
    /\ exitCode = 0

====
